---- MODULE Spec2Model ----
(***************************************************************************)
(* The rule network of terms/network.py: the discrimination tree grown by  *)
(* Network.add_rule, the dispatch of a fact through it by Network.add_fact,*)
(* the per-premise match store and join of PremNode.dispatch, and the      *)
(* firing of Rule.dispatch, which re-enters add_fact.                      *)
(*                                                                         *)
(* Reading of the source.  network.py is work in progress: where a line    *)
(* names an identifier that is defined nowhere, the model takes the        *)
(* evident referent and keeps the control and data flow as written:        *)
(*   line 101  cls.dispatch(self.root, m, fact, self): Node.dispatch(root, *)
(*             m, network)                                                 *)
(*   line 130  cls.resolve(w, path): resolve(term, path)                   *)
(*   line 396  self.vars: the numbered variables of the premise (pvars)    *)
(*   line 397  MPair(var, match(var.name)): one stored pair per variable   *)
(*             the binding carries                                         *)
(*   line 409  the stored pairs of a premise are compared by the rule's    *)
(*             name of the variable (PVarname: premise, number -> name)    *)
(*   line 619  for arg in args: self.args                                  *)
(*   line 665  con.substitute(match): the binding by the rule's names that *)
(*             lines 654-658 build from match                              *)
(*   line 666  return new or False: return                                 *)
(* Line 212 names nothing undefined and is taken as written: children is   *)
(* the list of the child nodes, and line 216 iterates a node.              *)
(* Everything else is the code's: the slot numbering of line 136, the test *)
(* of line 218, rule.conds (line 121) against self.conditions (line 660),  *)
(* the reset of new_matches at line 404, the order of lines 101 and 102.   *)
(*                                                                         *)
(* The lexicon, the fact set and the predicates (terms.words,              *)
(* terms.factset, terms.predicates) are not part of network.py; they are   *)
(* modelled from the design document over a small vocabulary.              *)
(***************************************************************************)
EXTENDS Naturals, Sequences, FiniteSets, TLC

\* ------------------------------------------------------------------------
\* Bounds of the model
\* ------------------------------------------------------------------------
MaxRules == 2
MaxFacts == 2
MaxConds == 3
MaxDepth == 4
MaxInits == 2
MaxWriters == 2

\* ------------------------------------------------------------------------
\* Vocabulary (lexicon): entities, a type, typed variables, verbs
\* ------------------------------------------------------------------------
Entities == {"john", "mary"}
Types == {"person"}
Vars == {"Person1", "Person2"}
Verbs == {"isa", "loves"}
Words == Entities \cup Types \cup Vars

\* patterns.varpat: does the name denote a rule variable
IsVarName(name) == name \in Vars

\* Term.term_type
TermType(t) ==
  IF t \in Entities \cup Vars THEN "person"
  ELSE IF t \in Types THEN "noun"
  ELSE "verb"

\* words.get_bases: the ancestors of a term
GetBases(t) ==
  IF t = "person" THEN {"thing"}
  ELSE IF t \in Vars THEN {"person", "thing"}
  ELSE {}

\* words.isa(value, thing): is the value an individual
IsaThing(t) == t \in Entities

\* A predicate: a verb with a subject and an object.
Pred(s, v, o) == [verb |-> v, subj |-> s, obj |-> o]

\* FactSet.get_paths: the same path list for every predicate of this shape
GetPaths(pred) == << <<"_verb">>, <<"subj", "_term">>, <<"obj", "_term">> >>

\* Term.get_object(segment)
GetObject(term, segment) == term[segment]

\* ------------------------------------------------------------------------
\* State
\* ------------------------------------------------------------------------
VARIABLES
  nodes,   \* the rows of table "nodes": Node objects, by id (1 is the root)
  prems,   \* the rows of table "premnodes": PremNode objects, by id
  rules,   \* the rows of table "rules": Rule objects, by id
  facts,   \* what FactSet.add_fact has persisted, in order
  root,    \* Network.root: the id of the node the network starts from
  last,    \* record of the last call: what it was given and what it did
  calls,   \* the add_fact calls of the caller so far: the fact, and how many
           \* rules were installed at the time
  writers  \* the threads that call add_rule: where each is in its call, and
           \* the locals of the call

vars == <<nodes, prems, rules, facts, root, last, calls, writers>>

\* The threads
Writers == 1..MaxWriters

\* A thread that is in no call. overlapped: a call of the thread was in
\* flight while a call of another thread was; raised: a call of the thread
\* ended with an exception
Idle ==
  [pc |-> "idle", k |-> 0, rid |-> 0, i |-> 0, paths |-> <<>>, old_node |-> 0,
   vars |-> <<>>, pnum |-> 0, overlapped |-> FALSE, raised |-> FALSE]

\* self.root
Root == root

\* RootNode(): no value, var 0 (the column default), no child_path, no terminal
RootNode ==
  [kind |-> "_root", value |-> "", var |-> 0, parent |-> 0,
   child_path |-> <<>>, terminal |-> 0]

\* Node.__init__(value), then node.var = pnum and parent.children.append(node)
NewNode(kind, value, pnum, parent) ==
  [kind |-> kind, value |-> value, var |-> pnum, parent |-> parent,
   child_path |-> <<>>, terminal |-> 0]

\* PremNode.__init__(parent): no rule and no stored match yet
NewPremNode(parent) == [parent |-> parent, rules |-> <<>>, matches |-> <<>>]

\* The ids 1..n in order: the order in which a query returns rows.
Ids(n) == [i \in 1..n |-> i]

\* parent.children: the nodes whose parent_id is the parent, in id order
ChildrenOf(ns, parent) ==
  SelectSeq(Ids(Len(ns)), LAMBDA i : ns[i].parent = parent)

\* ------------------------------------------------------------------------
\* resolve
\* ------------------------------------------------------------------------
RECURSIVE Follow(_, _)
\* for segment in path[:-1]: term = term.get_object(segment)
Follow(term, segs) ==
  IF segs = <<>> THEN term
  ELSE Follow(GetObject(term, Head(segs)), Tail(segs))

\* The value None
None == "None"

RECURSIVE Resolvable(_, _)
\* Does no get_object on the way raise AttributeError: has every term on the
\* way the object the segment names
Resolvable(term, segs) ==
  \/ segs = <<>>
  \/ /\ Head(segs) \in DOMAIN term
     /\ Resolvable(GetObject(term, Head(segs)), Tail(segs))

\* TermNode.resolve / VerbNode.resolve: None when a segment cannot be
\* followed. The vocabulary has no variable in verb position, so
\* VerbNode.resolve returns the term_type of the predicate, which is its verb.
Resolve(kind, term, path) ==
  IF ~Resolvable(term, SubSeq(path, 1, Len(path) - 1)) THEN None
  ELSE LET t == Follow(term, SubSeq(path, 1, Len(path) - 1))
       IN IF kind = "_verb" THEN t.verb ELSE t

\* ------------------------------------------------------------------------
\* Network.get_or_create_node
\* ------------------------------------------------------------------------
\* vars: the dict of one premise, name -> (pnum, Varname), kept here as the
\* sequence of its entries in the order they were made.
HasVar(pvs, name) == \E i \in 1..Len(pvs) : pvs[i].name = name

\* vars[name][0]
SlotOf(pvs, name) == pvs[CHOOSE i \in 1..Len(pvs) : pvs[i].name = name].num

\* line 136: the slot given to a variable name not yet seen in the premise
NewSlot(pvs) == Len(pvs)

\* lines 133-139: the slot of this path's value and the dict afterwards
SlotAndVars(pvs, name) ==
  IF IsVarName(name)
  THEN IF ~HasVar(pvs, name)
       THEN [pnum |-> NewSlot(pvs),
             vars |-> Append(pvs, [name |-> name, num |-> NewSlot(pvs)])]
       ELSE [pnum |-> SlotOf(pvs, name), vars |-> pvs]
  ELSE [pnum |-> 0, vars |-> pvs]

\* A lookup among the children of the root, whatever the parent
LookupChildAtRoot(ns, parent, kind, pnum, value) ==
  SelectSeq(ChildrenOf(ns, Root),
            LAMBDA i : ns[i].kind = kind /\ ns[i].var = pnum /\ ns[i].value = value)

\* A lookup that finds no child that stands for a variable
LookupChildLiteral(ns, parent, kind, pnum, value) ==
  SelectSeq(ChildrenOf(ns, parent),
            LAMBDA i : /\ ns[i].kind = kind /\ ns[i].var = pnum /\ ns[i].value = value
                       /\ ~IsVarName(value))

\* A lookup that never finds the child
LookupChildMissing(ns, parent, kind, pnum, value) == <<>>

\* line 141: the children of the parent, of the path's class, with this var
\* and this value
LookupChild(ns, parent, kind, pnum, value) ==
  SelectSeq(ChildrenOf(ns, parent),
            LAMBDA i : ns[i].kind = kind /\ ns[i].var = pnum /\ ns[i].value = value)

\* lines 143-149: build the node, append it to the parent's children, and
\* give the parent its child_path if it has none
CreateChild(ns, parent, kind, pnum, value, path) ==
  LET withChild == Append(ns, NewNode(kind, value, pnum, parent))
  IN IF ns[parent].child_path = <<>>
     THEN [withChild EXCEPT ![parent].child_path = path]
     ELSE withChild

\* get_or_create_node(parent, term, path, vars, rule): the nodes afterwards,
\* the node returned and the dict afterwards. .one() finds one row in every
\* tree a single writer builds.
GetOrCreateNode(ns, parent, term, path, pvs) ==
  LET kind == path[Len(path)]
      value == Resolve(kind, term, path)
      sv == SlotAndVars(pvs, value)
      found == LookupChild(ns, parent, kind, sv.pnum, value)
  IN IF found # <<>>
     THEN [nodes |-> ns, node |-> found[1], vars |-> sv.vars]
     ELSE [nodes |-> CreateChild(ns, parent, kind, sv.pnum, value, path),
           node |-> Len(ns) + 1, vars |-> sv.vars]

\* ------------------------------------------------------------------------
\* Network.add_rule
\* ------------------------------------------------------------------------
RECURSIVE WalkPaths(_, _, _, _, _)
\* lines 109-112: for path in paths: node = get_or_create_node(old_node, ...)
WalkPaths(ns, old_node, prem, paths, pvs) ==
  IF paths = <<>> THEN [nodes |-> ns, node |-> old_node, vars |-> pvs]
  ELSE LET g == GetOrCreateNode(ns, old_node, prem, Head(paths), pvs)
       IN WalkPaths(g.nodes, g.node, prem, Tail(paths), g.vars)

\* lines 113-117: the terminal of the last node, made if there is none
TerminalOf(ns, ps, old_node) ==
  IF ns[old_node].terminal # 0
  THEN [nodes |-> ns, prems |-> ps, pnode |-> ns[old_node].terminal]
  ELSE [nodes |-> [ns EXCEPT ![old_node].terminal = Len(ps) + 1],
        prems |-> Append(ps, NewPremNode(old_node)),
        pnode |-> Len(ps) + 1]

\* lines 119-120: a PVarname(pnode, n, varname) for every entry of vars
PVarnames(pnode, pvs) ==
  [i \in 1..Len(pvs) |-> [prem |-> pnode, num |-> pvs[i].num, varname |-> pvs[i].name]]

\* lines 107-120: one premise of the rule being built. c carries the tree,
\* the terminals and the Rule object; rid is the rule's id.
CompilePrem(c, rid, prem) ==
  LET w == WalkPaths(c.nodes, Root, prem, GetPaths(prem), <<>>)
      t == TerminalOf(w.nodes, c.prems, w.node)
  IN [nodes |-> t.nodes,
      prems |-> [t.prems EXCEPT ![t.pnode].rules = Append(@, rid)],
      rule |-> [c.rule EXCEPT !.prems = Append(@, t.pnode),
                              !.pvars = @ \o PVarnames(t.pnode, w.vars)]]

RECURSIVE CompilePrems(_, _, _)
\* line 106: for prem in prems
CompilePrems(c, rid, ps) ==
  IF ps = <<>> THEN c
  ELSE CompilePrems(CompilePrem(c, rid, Head(ps)), rid, Tail(ps))

\* Rule(): no premise, no pvar, no consecuence; conditions is the backref of
\* Condition.rule and is empty until a Condition is made for the rule
NewRule == [prems |-> <<>>, pvars |-> <<>>, conds |-> <<>>, conditions |-> <<>>,
            consecuences |-> <<>>]

\* add_rule(prems, conds, cons): the tree, the terminals and the rules
\* afterwards. Line 121 sets the attribute conds; lines 122-123 append the
\* consecuences.
CompileRule(ns, ps, rs, prms, conds, cons) ==
  LET rid == Len(rs) + 1
      c == CompilePrems([nodes |-> ns, prems |-> ps, rule |-> NewRule], rid, prms)
  IN [nodes |-> c.nodes, prems |-> c.prems,
      rules |-> Append(rs, [c.rule EXCEPT !.conds = conds,
                                          !.consecuences = @ \o cons])]

\* ------------------------------------------------------------------------
\* get_children
\* ------------------------------------------------------------------------
\* Match: a dict from slot numbers (in the tree) or variable names (in the
\* join) to values; the binding with no entry
NoMatch == <<>>

\* for k, v in match.items(): if v == value: ... break
BoundTo(match, value) == {k \in DOMAIN match : match[k] = value}

\* TermNode.get_children: (children, vchildren), here one after the other as
\* Node.dispatch walks them
TermGetChildren(ns, parent, match, value) ==
  LET ch == ChildrenOf(ns, parent)
      children == SelectSeq(ch, LAMBDA i : ns[i].kind = "_term" /\ ns[i].value = value)
      k == CHOOSE k \in BoundTo(match, value) : \A j \in BoundTo(match, value) : k <= j
      types == {TermType(value)} \cup GetBases(TermType(value))
      typed == SelectSeq(ch, LAMBDA i : /\ ns[i].kind = "_term"
                                        /\ IsVarName(ns[i].value)
                                        /\ TermType(ns[i].value) \in types)
      bases == {value} \cup GetBases(value)
      vchildren ==
        IF BoundTo(match, value) # {}
        THEN SelectSeq(ch, LAMBDA i : ns[i].var = k)
        ELSE IF ~IsaThing(value)
             THEN SelectSeq(typed, LAMBDA i : GetBases(ns[i].value) \cap bases # {})
             ELSE typed
  IN children \o vchildren

\* VerbNode.get_children: (children, pchildren, vchildren)
VerbGetChildren(ns, parent, match, value) ==
  LET ch == ChildrenOf(ns, parent)
      children == SelectSeq(ch, LAMBDA i : ns[i].kind = "_verb" /\ ns[i].value = value)
      k == CHOOSE k \in BoundTo(match, value) : \A j \in BoundTo(match, value) : k <= j
      types == {TermType(value)} \cup GetBases(TermType(value))
      chvars == SelectSeq(ch, LAMBDA i : ns[i].kind = "_verb" /\ IsVarName(ns[i].value))
      pchildren ==
        IF BoundTo(match, value) # {} THEN <<>>
        ELSE SelectSeq(chvars, LAMBDA i : TermType(ns[i].value) \in types)
      vchildren ==
        IF BoundTo(match, value) # {}
        THEN SelectSeq(ch, LAMBDA i : ns[i].var = k)
        ELSE SelectSeq(chvars, LAMBDA i : GetBases(ns[i].value) \cap types # {})
  IN children \o pchildren \o vchildren

\* cls.get_children(parent, match, value, network), cls the class named by
\* the last segment of the parent's child_path
GetChildren(kind, ns, parent, match, value) ==
  IF kind = "_verb" THEN VerbGetChildren(ns, parent, match, value)
  ELSE TermGetChildren(ns, parent, match, value)

\* lines 217-220: the copy of the match handed to a child
ExtendMatch(match, var, value) ==
  IF var # 0 /\ var \notin DOMAIN match THEN match @@ (var :> value) ELSE match

\* ------------------------------------------------------------------------
\* PremNode.dispatch: the match store and the join
\* ------------------------------------------------------------------------
\* The pvars a rule keeps for one of its premises
PVarsOf(rule, pnode) == SelectSeq(rule.pvars, LAMBDA pv : pv.prem = pnode)

\* The numbered variables of a premise, over the rules that use it
PremVars(rs, ps, pnode) ==
  {pv.num : pv \in UNION {{PVarsOf(rs[r], pnode)[i] : i \in 1..Len(PVarsOf(rs[r], pnode))} :
                          r \in {ps[pnode].rules[j] : j \in 1..Len(ps[pnode].rules)}}}

\* lines 395-397: the Match stored for a binding
StoredMatch(premvars, match) ==
  [k \in premvars \cap DOMAIN match |-> match[k]]

\* A store that keeps the latest match only
AppendMatchOverwriting(matches, m) == <<m>>

\* line 398: self.matches.append(m)
AppendMatch(matches, m) == Append(matches, m)

\* The names a rule gives the variables of one of its premises
NamesOf(rule, pnode) ==
  {PVarsOf(rule, pnode)[i].varname : i \in 1..Len(PVarsOf(rule, pnode))}

\* The number a rule's name has in one of its premises
NumOf(rule, pnode, name) ==
  LET pvs == PVarsOf(rule, pnode)
  IN pvs[CHOOSE i \in 1..Len(pvs) : pvs[i].varname = name].num

\* Rule.dispatch lines 654-658 and PVarname: a binding by number, of one
\* premise, as a binding by the rule's names
ByName(rule, pnode, match) ==
  [name \in {nm \in NamesOf(rule, pnode) : NumOf(rule, pnode, nm) \in DOMAIN match}
     |-> match[NumOf(rule, pnode, name)]]

\* lines 405-409: the stored matches of prem that carry, for every variable
\* of m that prem has, the value m gives it
FilterMatches(rule, prem, pmatches, m) ==
  SelectSeq(pmatches,
            LAMBDA pm : \A v \in DOMAIN m \cap NamesOf(rule, prem) :
                          /\ NumOf(rule, prem, v) \in DOMAIN pm
                          /\ pm[NumOf(rule, prem, v)] = m[v])

\* lines 411-415: a copy of m with the pairs of pm that m does not have
MergePairs(rule, prem, m, pm) ==
  LET pmn == ByName(rule, prem, pm)
  IN [v \in DOMAIN m \cup DOMAIN pmn |-> IF v \in DOMAIN m THEN m[v] ELSE pmn[v]]

\* lines 404-416 for one m: new_matches is emptied, then takes a merge for
\* every stored match that passes the filter
NewMatches(rule, prem, pmatches, m) ==
  LET pms == FilterMatches(rule, prem, pmatches, m)
  IN [i \in 1..Len(pms) |-> MergePairs(rule, prem, m, pms[i])]

RECURSIVE ForEachMatch(_, _, _, _, _)
\* line 403: for m in matches. new_matches is what the last m left in it;
\* with no m it keeps what line 417 gave matches before.
ForEachMatch(rule, prem, pmatches, matches, new_matches) ==
  IF matches = <<>> THEN new_matches
  ELSE ForEachMatch(rule, prem, pmatches, Tail(matches),
                    NewMatches(rule, prem, pmatches, Head(matches)))

RECURSIVE JoinPrems(_, _, _, _, _)
\* lines 401-417: for prem in rule.prems: if prem is not self
JoinPrems(rule, ps, self, rprems, matches) ==
  IF rprems = <<>> THEN matches
  ELSE IF Head(rprems) = self
       THEN JoinPrems(rule, ps, self, Tail(rprems), matches)
       ELSE JoinPrems(rule, ps, self, Tail(rprems),
                      ForEachMatch(rule, Head(rprems), ps[Head(rprems)].matches,
                                   matches, matches))

\* lines 400-417: the matches with which the rule is fired for a binding
\* that arrived at the terminal self
Join(rule, ps, self, match) ==
  JoinPrems(rule, ps, self, rule.prems, <<ByName(rule, self, match)>>)

\* ------------------------------------------------------------------------
\* Conditions and consecuences
\* ------------------------------------------------------------------------
\* The external predicates a Condition may name: one that holds, one that
\* does not, one that raises
Funs == {"true", "false", "raise"}

\* Condition.test(match): what self.fun(*sargs) does
CondTest(cond, match) == cond

\* Predicate.substitute: can every variable of the consecuence be looked up
CanSubstitute(con, match) ==
  \A pos \in {"subj", "obj"} : IsVarName(con[pos]) => con[pos] \in DOMAIN match

\* Predicate.substitute: the consecuence with its variables replaced by the
\* values the match gives them
Substitute(con, match) ==
  [pos \in {"verb", "subj", "obj"} |->
     IF IsVarName(con[pos]) THEN match[con[pos]] ELSE con[pos]]

\* ------------------------------------------------------------------------
\* Network.add_fact, Node.dispatch, PremNode.dispatch, Rule.dispatch
\* ------------------------------------------------------------------------
\* A call in progress, n: the network (nodes, prems, rules, facts), whether
\* an exception is propagating (raised; diverged when it is the recursion
\* that did not end within MaxDepth), and the record of what the call did:
\* fired (Rule.dispatch calls), evald (Condition.test calls), asserted
\* (consecuences handed to add_fact, with the fact and the rule that gave
\* them and the depth of the add_fact call), delivered (bindings that
\* reached a terminal).
Raise(n) == [n EXCEPT !.raised = TRUE]

RECURSIVE AddFactIn(_, _, _)
RECURSIVE NodeDispatch(_, _, _, _, _)
RECURSIVE DispatchChildren(_, _, _, _, _, _)
RECURSIVE FireAll(_, _, _, _, _)
RECURSIVE TestConditions(_, _, _, _)
RECURSIVE AddConsecuences(_, _, _, _, _, _)
RECURSIVE ForEachRule(_, _, _, _, _, _)

\* line 102: self.factset.add_fact(fact)
Persist(n, fact) == [n EXCEPT !.facts = Append(@, fact)]

\* A test of every condition, with the results put together afterwards
TestConditionsAll(n, rid, match, i) ==
  LET cs == n.rules[rid].conditions
      n1 == [n EXCEPT !.evald = @ \o [j \in 1..Len(cs) |-> <<rid, j>>]]
  IN IF \E j \in 1..Len(cs) : CondTest(cs[j], match) = "raise"
     THEN [n |-> Raise(n1), pass |-> FALSE]
     ELSE [n |-> n1, pass |-> \A j \in 1..Len(cs) : CondTest(cs[j], match) = "true"]

\* lines 660-662: for cond in self.conditions: if not cond.test(match): return
\* The result says whether the consecuences are to be added.
TestConditions(n, rid, match, i) ==
  IF i > Len(n.rules[rid].conditions) THEN [n |-> n, pass |-> TRUE]
  ELSE LET r == CondTest(n.rules[rid].conditions[i], match)
           n1 == [n EXCEPT !.evald = Append(@, <<rid, i>>)]
       IN IF r = "raise" THEN [n |-> Raise(n1), pass |-> FALSE]
          ELSE IF r = "false" THEN [n |-> n1, pass |-> FALSE]
          ELSE TestConditions(n1, rid, match, i + 1)

\* lines 664-665: for con in self.consecuences:
\*   network.add_fact(con.substitute(match))
AddConsecuences(n, rid, cons, match, fact, depth) ==
  IF cons = <<>> \/ n.raised THEN n
  ELSE IF ~CanSubstitute(Head(cons), match) THEN Raise(n)
  ELSE LET f == Substitute(Head(cons), match)
           n1 == [n EXCEPT !.asserted =
                    Append(@, [fact |-> f, by |-> fact, rule |-> rid, depth |-> depth + 1])]
       IN AddConsecuences(AddFactIn(n1, f, depth + 1), rid, Tail(cons), match, fact, depth)

\* Rule.dispatch(match)
RuleDispatch(n, rid, match, fact, depth) ==
  LET n1 == [n EXCEPT !.fired = Append(@, [rule |-> rid, match |-> match, fact |-> fact])]
      t == TestConditions(n1, rid, match, 1)
  IN IF t.n.raised \/ ~t.pass THEN t.n
     ELSE AddConsecuences(t.n, rid, n.rules[rid].consecuences, match, fact, depth)

\* lines 418-419: for m in matches: rule.dispatch(m)
FireAll(n, rid, matches, fact, depth) ==
  IF matches = <<>> \/ n.raised THEN n
  ELSE FireAll(RuleDispatch(n, rid, Head(matches), fact, depth),
               rid, Tail(matches), fact, depth)

\* line 399: for rule in self.rules
ForEachRule(n, self, rids, match, fact, depth) ==
  IF rids = <<>> \/ n.raised THEN n
  ELSE LET rid == Head(rids)
           matches == Join(n.rules[rid], n.prems, self, match)
       IN ForEachRule(FireAll(n, rid, matches, fact, depth),
                      self, Tail(rids), match, fact, depth)

\* A terminal that is taken off its node by the match it stores
PremDispatchDetaching(n, self, match, fact, depth) ==
  LET m == StoredMatch(PremVars(n.rules, n.prems, self), match)
      n1 == [n EXCEPT !.prems[self].matches = AppendMatch(@, m),
                      !.nodes[n.prems[self].parent].terminal = 0,
                      !.delivered = Append(@, [prem |-> self, match |-> match, fact |-> fact])]
  IN ForEachRule(n1, self, n.prems[self].rules, match, fact, depth)

\* PremNode.dispatch(match, network)
PremDispatch(n, self, match, fact, depth) ==
  LET m == StoredMatch(PremVars(n.rules, n.prems, self), match)
      n1 == [n EXCEPT !.prems[self].matches = AppendMatch(@, m),
                      !.delivered = Append(@, [prem |-> self, match |-> match, fact |-> fact])]
  IN ForEachRule(n1, self, n.prems[self].rules, match, fact, depth)

\* lines 215-221: for ch in children: for child in ch
DispatchChildren(n, children, value, match, fact, depth) ==
  IF children = <<>> \/ n.raised THEN n
  ELSE LET child == Head(children)
           new_match == ExtendMatch(match, n.nodes[child].var, value)
       IN DispatchChildren(NodeDispatch(n, child, new_match, fact, depth),
                           Tail(children), value, match, fact, depth)

\* lines 211-216 when the value is None: children is the list of the child
\* nodes, and `for child in ch` iterates a node, which is a TypeError as soon
\* as there is a child; a node with a child_path has one
DispatchAll(n, parent) ==
  IF ChildrenOf(n.nodes, parent) # <<>> THEN Raise(n) ELSE n

\* Node.dispatch(parent, match, network)
NodeDispatch(n, parent, match, fact, depth) ==
  LET path == n.nodes[parent].child_path
      kind == path[Len(path)]
      value == Resolve(kind, fact, path)
      n1 == IF path # <<>>
            THEN IF value = None
                 THEN DispatchAll(n, parent)
                 ELSE DispatchChildren(n, GetChildren(kind, n.nodes, parent, match, value),
                                       value, match, fact, depth)
            ELSE n
  IN IF n1.raised THEN n1
     ELSE IF n.nodes[parent].terminal # 0
          THEN PremDispatch(n1, n.nodes[parent].terminal, match, fact, depth)
          ELSE n1

\* An add_fact that persists the fact and then dispatches it
AddFactInPersistFirst(n, fact, depth) ==
  IF depth > MaxDepth THEN [n EXCEPT !.raised = TRUE, !.diverged = TRUE]
  ELSE IF n.nodes[Root].child_path # <<>>
       THEN NodeDispatch(Persist(n, fact), Root, NoMatch, fact, depth)
       ELSE Persist(n, fact)

\* Network.add_fact(fact), at recursion depth depth (0 for the caller's)
AddFactIn(n, fact, depth) ==
  IF depth > MaxDepth THEN [n EXCEPT !.raised = TRUE, !.diverged = TRUE]
  ELSE LET n1 == IF n.nodes[Root].child_path # <<>>
                 THEN NodeDispatch(n, Root, NoMatch, fact, depth)
                 ELSE n
       IN IF n1.raised THEN n1 ELSE Persist(n1, fact)

\* A call on the network as it is, with nothing done yet
Call(ns, ps, rs, fs) ==
  [nodes |-> ns, prems |-> ps, rules |-> rs, facts |-> fs,
   raised |-> FALSE, diverged |-> FALSE,
   fired |-> <<>>, evald |-> <<>>, asserted |-> <<>>, delivered |-> <<>>]

\* ------------------------------------------------------------------------
\* The callers' inputs
\* ------------------------------------------------------------------------
JohnIsaPerson == Pred("john", "isa", "person")
MaryIsaPerson == Pred("mary", "isa", "person")
JohnLovesMary == Pred("john", "loves", "mary")
MaryLovesJohn == Pred("mary", "loves", "john")

\* A fact with no object
JohnLoves == [verb |-> "loves", subj |-> "john"]

\* The facts a caller adds
Facts == {JohnIsaPerson, JohnLovesMary, MaryLovesJohn}

\* The rules a caller installs: premises, conditions, consecuences
LoveRule ==
  [prems |-> <<Pred("Person1", "isa", "person"), Pred("Person1", "loves", "Person2")>>,
   conds |-> <<>>,
   cons |-> <<Pred("Person2", "loves", "Person1")>>]

LovedRule ==
  [prems |-> <<Pred("Person1", "loves", "Person2")>>,
   conds |-> <<"false">>,
   cons |-> <<Pred("Person2", "isa", "person")>>]

JohnRule ==
  [prems |-> <<JohnIsaPerson>>,
   conds |-> <<>>,
   cons |-> <<JohnLovesMary>>]

BelovedRule ==
  [prems |-> <<Pred("Person1", "isa", "person"), Pred("Person2", "loves", "Person1")>>,
   conds |-> <<>>,
   cons |-> <<Pred("Person1", "loves", "Person2")>>]

\* A rule whose consecuence is again a fact of its premise
SwapRule ==
  [prems |-> <<Pred("Person1", "loves", "Person2")>>,
   conds |-> <<>>,
   cons |-> <<Pred("Person2", "loves", "Person1")>>]

\* A rule with three premises
TripleRule ==
  [prems |-> <<JohnIsaPerson, Pred("Person1", "loves", "Person2"), JohnLovesMary>>,
   conds |-> <<>>,
   cons |-> <<MaryIsaPerson>>]

RuleBook ==
  <<LoveRule, LovedRule, JohnRule, BelovedRule, SwapRule, TripleRule>>

\* The rules a caller of Spec installs
Rules == {k \in 1..Len(RuleBook) :
            RuleBook[k] \in {LoveRule, LovedRule, JohnRule, BelovedRule}}

\* ------------------------------------------------------------------------
\* The state machine
\* ------------------------------------------------------------------------
\* ret is what the call returned: the id of an object, or 0 for None
NoCall ==
  [op |-> "init", arg |-> <<>>, before |-> 0, ret |-> 0,
   raised |-> FALSE, diverged |-> FALSE,
   fired |-> <<>>, evald |-> <<>>, asserted |-> <<>>, delivered |-> <<>>]

\* Network.__init__ / initialize: the root alone
Init ==
  /\ nodes = <<RootNode>>
  /\ prems = <<>>
  /\ rules = <<>>
  /\ facts = <<>>
  /\ root = 1
  /\ last = NoCall
  /\ calls = <<>>
  /\ writers = [t \in Writers |-> Idle]

RECURSIVE Replay(_, _)
\* Every fact of fs dispatched from the root, one after the other
Replay(n, fs) ==
  IF fs = <<>> \/ n.raised THEN n
  ELSE Replay(NodeDispatch(n, Root, NoMatch, Head(fs), 0), Tail(fs))

\* An add_rule that dispatches the persisted facts through the new tree
AddRuleBackfill(k) ==
  /\ Len(rules) < MaxRules
  /\ LET c == CompileRule(nodes, prems, rules,
                          RuleBook[k].prems, RuleBook[k].conds, RuleBook[k].cons)
         n == Replay(Call(c.nodes, c.prems, c.rules, facts), facts)
     IN /\ nodes' = c.nodes
        /\ prems' = n.prems
        /\ rules' = c.rules
        /\ facts' = n.facts
        /\ last' = [op |-> "add_rule", arg |-> k, before |-> Len(facts), ret |-> 0,
                    raised |-> n.raised, diverged |-> n.diverged,
                    fired |-> n.fired, evald |-> n.evald,
                    asserted |-> n.asserted, delivered |-> n.delivered]
  /\ UNCHANGED <<root, calls, writers>>

\* network.add_rule(prems, conds, cons) with rule k of the rule book. The
\* function has no return statement: the call returns None.
AddRule(k) ==
  /\ Len(rules) < MaxRules
  /\ LET c == CompileRule(nodes, prems, rules,
                          RuleBook[k].prems, RuleBook[k].conds, RuleBook[k].cons)
     IN /\ nodes' = c.nodes
        /\ prems' = c.prems
        /\ rules' = c.rules
  /\ last' = [NoCall EXCEPT !.op = "add_rule", !.arg = k, !.before = Len(facts)]
  /\ UNCHANGED <<facts, root, calls, writers>>

\* network.add_fact(fact); what the call left behind stays when it raises
AddFact(fact) ==
  /\ Len(calls) < MaxFacts
  /\ LET n == AddFactIn(Call(nodes, prems, rules, facts), fact, 0)
     IN /\ nodes' = n.nodes
        /\ prems' = n.prems
        /\ rules' = n.rules
        /\ facts' = n.facts
        /\ last' = [op |-> "add_fact", arg |-> fact, before |-> Len(facts), ret |-> 0,
                    raised |-> n.raised,
                    diverged |-> n.diverged, fired |-> n.fired, evald |-> n.evald,
                    asserted |-> n.asserted, delivered |-> n.delivered]
  /\ calls' = Append(calls, [fact |-> fact, nrules |-> Len(rules)])
  /\ UNCHANGED <<root, writers>>

\* The number of Condition objects made so far
NumConditions(rs) ==
  LET RECURSIVE Sum(_)
      Sum(i) == IF i = 0 THEN 0 ELSE Len(rs[i].conditions) + Sum(i - 1)
  IN Sum(Len(rs))

\* Condition(rule, fpath): line 611 gives the condition its rule, which puts
\* it at the end of rule.conditions
NewCondition(rid, fun) ==
  /\ NumConditions(rules) < MaxConds
  /\ rules' = [rules EXCEPT ![rid].conditions = Append(@, fun)]
  /\ last' = [NoCall EXCEPT !.op = "condition", !.arg = <<rid, fun>>,
                            !.before = Len(facts)]
  /\ UNCHANGED <<nodes, prems, facts, root, calls, writers>>

\* Rules installed and facts added, in any order
Next ==
  \/ \E k \in Rules : AddRule(k)
  \/ \E fact \in Facts : AddFact(fact)

Spec == Init /\ [][Next]_vars

\* The same with conditions made for the installed rules, over the rules and
\* facts of CondRules and CondFacts
CondRules == {k \in 1..Len(RuleBook) : RuleBook[k] = JohnRule}
CondFacts == {JohnIsaPerson}

NextCond ==
  \/ \E k \in CondRules : AddRule(k)
  \/ \E fact \in CondFacts : AddFact(fact)
  \/ \E rid \in 1..Len(rules), fun \in Funs : NewCondition(rid, fun)

SpecCond == Init /\ [][NextCond]_vars

\* The root rows of table "nodes"
Roots(ns) == {i \in 1..Len(ns) : ns[i].kind = "_root"}

\* network.initialize() on the network as it is: lines 84-86 make a RootNode,
\* add it to the session and make it self.root. create_all makes only the
\* tables that are missing.
Initialize ==
  /\ Cardinality(Roots(nodes)) <= MaxInits
  /\ nodes' = Append(nodes, RootNode)
  /\ root' = Len(nodes) + 1
  /\ last' = [NoCall EXCEPT !.op = "initialize", !.before = Len(facts)]
  /\ UNCHANGED <<prems, rules, facts, calls, writers>>

\* The same as Spec over the rules and facts of InitRules and InitFacts, with
\* initialize called at any time
InitRules == {k \in 1..Len(RuleBook) : RuleBook[k] \in {JohnRule, LovedRule}}
InitFacts == {JohnIsaPerson, JohnLovesMary}

NextInit ==
  \/ \E k \in InitRules : AddRule(k)
  \/ \E fact \in InitFacts : AddFact(fact)
  \/ Initialize

SpecInit == Init /\ [][NextInit]_vars

\* ------------------------------------------------------------------------
\* Match.merge
\* ------------------------------------------------------------------------
\* The Match objects over the variables of the vocabulary
Bindings == UNION {[D -> Entities] : D \in SUBSET Vars}

\* The orders in which a dict may hand out its keys
Orders(m) ==
  {o \in [1..Cardinality(DOMAIN m) -> DOMAIN m] :
     \A i, j \in 1..Cardinality(DOMAIN m) : i # j => o[i] # o[j]}

\* m.items() in one of these orders
Items(m, o) == [i \in 1..Len(o) |-> <<o[i], m[o[i]]>>]

RECURSIVE MergeLoop(_, _, _, _)
\* lines 59-64: for k, v in self.items() + m.items(). self[k] with k not in
\* self is a KeyError; the result is the Match returned, False, or the
\* exception.
MergeLoop(self, m, items, new_match) ==
  IF items = <<>> THEN [kind |-> "match", match |-> new_match]
  ELSE LET k == Head(items)[1]
           v == Head(items)[2]
       IN IF k \in DOMAIN m
          THEN IF k \notin DOMAIN self THEN [kind |-> "raise", match |-> NoMatch]
               ELSE IF self[k] # v THEN [kind |-> "false", match |-> NoMatch]
               ELSE MergeLoop(self, m, Tail(items), (k :> v) @@ new_match)
          ELSE MergeLoop(self, m, Tail(items), (k :> v) @@ new_match)

\* self.merge(m), with the orders of the two dicts
Merge(self, m, o1, o2) ==
  MergeLoop(self, m, Items(self, o1) \o Items(m, o2), NoMatch)

\* Two Match objects about to be merged
InitMerge ==
  /\ nodes = <<RootNode>>
  /\ prems = <<>>
  /\ rules = <<>>
  /\ facts = <<>>
  /\ root = 1
  /\ calls = <<>>
  /\ writers = [t \in Writers |-> Idle]
  /\ \E a, b \in Bindings : last = [NoCall EXCEPT !.op = "match", !.arg = <<a, b>>]

\* a.merge(b)
MergeCall ==
  /\ last.op = "match"
  /\ \E o1 \in Orders(last.arg[1]), o2 \in Orders(last.arg[2]) :
       last' = [last EXCEPT !.op = "merge",
                            !.ret = Merge(last.arg[1], last.arg[2], o1, o2)]
  /\ UNCHANGED <<nodes, prems, rules, facts, root, calls, writers>>

NextMerge == MergeCall

SpecMerge == InitMerge /\ [][NextMerge]_vars

\* The same as Spec over the rules and facts of CycleRules and CycleFacts
CycleRules == {k \in 1..Len(RuleBook) : RuleBook[k] \in {SwapRule, LovedRule}}
CycleFacts == {JohnIsaPerson, JohnLovesMary, MaryLovesJohn}

NextCycle ==
  \/ \E k \in CycleRules : AddRule(k)
  \/ \E fact \in CycleFacts : AddFact(fact)

SpecCycle == Init /\ [][NextCycle]_vars

\* The same as Spec over the rules and facts of ShortRules and ShortFacts
ShortRules == {k \in 1..Len(RuleBook) : RuleBook[k] \in {LovedRule, JohnRule}}
ShortFacts == {JohnLoves, JohnLovesMary, JohnIsaPerson}

NextShort ==
  \/ \E k \in ShortRules : AddRule(k)
  \/ \E fact \in ShortFacts : AddFact(fact)

SpecShort == Init /\ [][NextShort]_vars

\* The same as Spec over the rules and facts of JoinRules and JoinFacts
JoinRules == {k \in 1..Len(RuleBook) : RuleBook[k] \in {TripleRule, BelovedRule}}
JoinFacts == {JohnIsaPerson, JohnLovesMary, MaryLovesJohn}

NextJoin ==
  \/ \E k \in JoinRules : AddRule(k)
  \/ \E fact \in JoinFacts : AddFact(fact)

SpecJoin == Init /\ [][NextJoin]_vars

\* The same as Spec over a rule that derives (john loves mary) and a rule
\* two premises of which that fact satisfies
RepeatRules == {k \in 1..Len(RuleBook) : RuleBook[k] \in {TripleRule, JohnRule}}
RepeatFacts == {JohnIsaPerson, JohnLovesMary, MaryLovesJohn}

NextRepeat ==
  \/ \E k \in RepeatRules : AddRule(k)
  \/ \E fact \in RepeatFacts : AddFact(fact)

SpecRepeat == Init /\ [][NextRepeat]_vars

\* ------------------------------------------------------------------------
\* add_rule called from several threads on one network. A call is taken
\* statement by statement where get_or_create_node reads and then writes:
\* the query of line 141 is one step and the append of lines 143-149 is
\* another. What follows the last path of a premise (lines 113-120, and
\* lines 121-125 after the last premise) is one step.
\* ------------------------------------------------------------------------
\* A call of the thread is under way
InFlight(t) == writers[t].pc # "idle"

\* The premise the thread is compiling
PremOf(w) == RuleBook[w.k].prems[w.i]

\* The locals of a thread that has dealt with the first of its paths
Advance(w, node) ==
  [w EXCEPT !.old_node = node,
            !.paths = Tail(@),
            !.pc = IF Tail(w.paths) = <<>> THEN "attach" ELSE "lookup"]

\* line 105: rule = Rule(), and line 106 to 108 for the first premise. The
\* Rule object has its identity from here on.
Begin(t, k) ==
  /\ ~InFlight(t)
  /\ Len(rules) < MaxRules
  /\ rules' = Append(rules, NewRule)
  /\ writers' =
       [u \in Writers |->
          IF u = t
          THEN [Idle EXCEPT !.pc = "lookup", !.k = k, !.rid = Len(rules) + 1, !.i = 1,
                            !.paths = GetPaths(RuleBook[k].prems[1]),
                            !.old_node = Root,
                            !.overlapped = writers[t].overlapped
                                             \/ \E v \in Writers \ {t} : InFlight(v),
                            !.raised = writers[t].raised]
          ELSE [writers[u] EXCEPT !.overlapped = @ \/ InFlight(u)]]
  /\ UNCHANGED <<nodes, prems, facts, root, last, calls>>

\* lines 128-141: the slot of the path's value, and the query. .one() raises
\* when it finds several rows, and the call ends there with what it has
\* written so far.
Lookup(t) ==
  LET w == writers[t]
      path == Head(w.paths)
      kind == path[Len(path)]
      value == Resolve(kind, PremOf(w), path)
      sv == SlotAndVars(w.vars, value)
      found == LookupChild(nodes, w.old_node, kind, sv.pnum, value)
      w1 == [w EXCEPT !.vars = sv.vars, !.pnum = sv.pnum]
  IN /\ w.pc = "lookup"
     /\ writers' = [writers EXCEPT ![t] =
                      IF Len(found) > 1
                      THEN [Idle EXCEPT !.overlapped = w.overlapped, !.raised = TRUE]
                      ELSE IF Len(found) = 1 THEN Advance(w1, found[1])
                      ELSE [w1 EXCEPT !.pc = "create"]]
     /\ UNCHANGED <<nodes, prems, rules, facts, root, last, calls>>

\* lines 142-149: except NoResultFound: build the node and append it
Create(t) ==
  LET w == writers[t]
      path == Head(w.paths)
      kind == path[Len(path)]
      value == Resolve(kind, PremOf(w), path)
  IN /\ w.pc = "create"
     /\ nodes' = CreateChild(nodes, w.old_node, kind, w.pnum, value, path)
     /\ writers' = [writers EXCEPT ![t] = Advance(w, Len(nodes) + 1)]
     /\ UNCHANGED <<prems, rules, facts, root, last, calls>>

\* lines 113-120, then lines 107-108 for the next premise if there is one,
\* and if there is none lines 121-125: the conds, the consecuences, the
\* commit, and the call returns
Attach(t) ==
  LET w == writers[t]
      tm == TerminalOf(nodes, prems, w.old_node)
      more == w.i < Len(RuleBook[w.k].prems)
      r == [rules[w.rid] EXCEPT !.prems = Append(@, tm.pnode),
                                !.pvars = @ \o PVarnames(tm.pnode, w.vars)]
  IN /\ w.pc = "attach"
     /\ nodes' = tm.nodes
     /\ prems' = [tm.prems EXCEPT ![tm.pnode].rules = Append(@, w.rid)]
     /\ rules' = [rules EXCEPT ![w.rid] =
                    IF more THEN r
                    ELSE [r EXCEPT !.conds = RuleBook[w.k].conds,
                                   !.consecuences = @ \o RuleBook[w.k].cons]]
     /\ writers' = [writers EXCEPT ![t] =
                      IF more
                      THEN [w EXCEPT !.i = @ + 1,
                                     !.paths = GetPaths(RuleBook[w.k].prems[w.i + 1]),
                                     !.old_node = Root, !.vars = <<>>, !.pnum = 0,
                                     !.pc = "lookup"]
                      ELSE [Idle EXCEPT !.overlapped = w.overlapped,
                                        !.raised = w.raised]]
     /\ last' = IF more THEN last
                ELSE [NoCall EXCEPT !.op = "add_rule", !.arg = w.k, !.before = Len(facts)]
     /\ UNCHANGED <<facts, root, calls>>

\* The rule the threads install: every two calls have the chain of the
\* premise (Person1 loves Person2) in common
WriterRules == {k \in 1..Len(RuleBook) : RuleBook[k] = LovedRule}

NextWriters ==
  \/ \E t \in Writers : \E k \in WriterRules : Begin(t, k)
  \/ \E t \in Writers : Lookup(t)
  \/ \E t \in Writers : Create(t)
  \/ \E t \in Writers : Attach(t)

SpecWriters == Init /\ [][NextWriters]_vars

\* ------------------------------------------------------------------------
\* Terms used to state the properties
\* ------------------------------------------------------------------------
Range(seq) == {seq[i] : i \in 1..Len(seq)}

IsPrefix(a, b) == Len(a) <= Len(b) /\ SubSeq(b, 1, Len(a)) = a

\* An assignment of the variables to entities, and a pattern under it
Assignments == [Vars -> Entities]

\* add_fact(fact) by the caller on the network a call left behind
Then(n, fact) == AddFactIn(Call(n.nodes, n.prems, n.rules, n.facts), fact, 0)

\* The network as it is now
Now == Call(nodes, prems, rules, facts)

\* ------------------------------------------------------------------------
\* C1  Join commutativity over fact order.  For a rule with two premises
\* installed before any fact, and two facts that are its premises under one
\* assignment of its variables: adding the first then the second, and the
\* second then the first, each fire the rule exactly once, and both leave the
\* same derived facts persisted.
\* ------------------------------------------------------------------------
C1_OrderIndependentFiring ==
  (Len(rules) = 1 /\ calls = <<>> /\ Len(rules[1].prems) = 2) =>
    \A a \in Assignments :
      LET P == RuleBook[last.arg].prems
          f1 == Substitute(P[1], a)
          f2 == Substitute(P[2], a)
          n1 == Then(Now, f1)
          n12 == Then(n1, f2)
          n2 == Then(Now, f2)
          n21 == Then(n2, f1)
      IN /\ Len(n1.fired) + Len(n12.fired) = 1
         /\ Len(n2.fired) + Len(n21.fired) = 1
         /\ Range(n12.facts) \ {f1, f2} = Range(n21.facts) \ {f1, f2}

\* The network after add_rule of one rule of the book on the empty network
Installed(rule) ==
  CompileRule(<<RootNode>>, <<>>, <<>>, rule.prems, rule.conds, rule.cons)

\* ------------------------------------------------------------------------
\* C2  End-to-end scenario.  With the rule (Person1 isa person),
\* (Person1 loves Person2) -> (Person2 loves Person1) installed, after
\* add_fact(john isa person) and then add_fact(john loves mary): the one
\* derived fact is (mary loves john), it is persisted with the two facts
\* added, nothing else is derived, and the call has returned.
\* ------------------------------------------------------------------------
C2_EndToEnd ==
  ( /\ rules = Installed(LoveRule).rules
    /\ calls = <<[fact |-> JohnIsaPerson, nrules |-> 1],
                 [fact |-> JohnLovesMary, nrules |-> 1]>> ) =>
    /\ ~last.raised
    /\ ~last.diverged
    /\ Len(last.asserted) = 1
    /\ last.asserted[1].fact = MaryLovesJohn
    /\ Len(facts) = 3
    /\ Range(facts) = {JohnIsaPerson, JohnLovesMary, MaryLovesJohn}

\* ------------------------------------------------------------------------
\* C3  Binding consistency.  Every binding with which a rule is fired gives
\* a value to every variable name the rule declares, and for each premise of
\* the rule some stored match of that premise holds exactly those values for
\* the premise's variables.
\* ------------------------------------------------------------------------
C3_BindingConsistency ==
  \A i \in 1..Len(last.fired) :
    LET e == last.fired[i]
        r == rules[e.rule]
    IN /\ \A j \in 1..Len(r.pvars) :
            /\ r.pvars[j].varname \in DOMAIN e.match
            /\ e.match[r.pvars[j].varname] \in Entities
       /\ \A p \in Range(r.prems) :
            \E pm \in Range(prems[p].matches) :
              \A j \in 1..Len(r.pvars) :
                r.pvars[j].prem = p =>
                  /\ r.pvars[j].num \in DOMAIN pm
                  /\ r.pvars[j].varname \in DOMAIN e.match
                  /\ pm[r.pvars[j].num] = e.match[r.pvars[j].varname]

\* ------------------------------------------------------------------------
\* C4  Monotonic match accumulation.  No call removes a terminal, and every
\* terminal's matches before a call are the first of its matches after it.
\* ------------------------------------------------------------------------
C4_MatchesOnlyGrow ==
  [][ /\ Len(prems') >= Len(prems)
      /\ \A p \in 1..Len(prems) : IsPrefix(prems[p].matches, prems'[p].matches)
    ]_vars

\* A terminal whose store has grown in two calls
C4_Witness ==
  /\ Len(calls) = 2
  /\ \E p \in 1..Len(prems) : Len(prems[p].matches) >= 2

\* The conditions of a rule that a firing evaluates: all up to and including
\* the first that does not hold
Evaluated(conds) ==
  {i \in 1..Len(conds) : \A j \in 1..(i - 1) : conds[j] = "true"}

RECURSIVE ExpectedEvald(_)
\* The Condition.test calls of a sequence of firings, in order
ExpectedEvald(fired) ==
  IF fired = <<>> THEN <<>>
  ELSE LET rid == Head(fired).rule
       IN SelectSeq([i \in 1..Len(rules[rid].conditions) |-> <<rid, i>>],
                    LAMBDA e : e[2] \in Evaluated(rules[rid].conditions))
          \o ExpectedEvald(Tail(fired))

KeyOf(ns, i) == [kind |-> ns[i].kind, var |-> ns[i].var, value |-> ns[i].value]

RECURSIVE Chain(_, _)
\* The nodes from below the root down to a node
Chain(ns, node) ==
  IF node = Root THEN <<>> ELSE Append(Chain(ns, ns[node].parent), node)

\* The keys along the chain of a node
Keys(ns, node) ==
  LET ch == Chain(ns, node) IN [d \in 1..Len(ch) |-> KeyOf(ns, ch[d])]

RECURSIVE Decomp(_, _, _)
\* The (class, slot, value) of every path of a premise, in path order
Decomp(prem, paths, pvs) ==
  IF paths = <<>> THEN <<>>
  ELSE LET kind == Head(paths)[Len(Head(paths))]
           value == Resolve(kind, prem, Head(paths))
           sv == SlotAndVars(pvs, value)
       IN <<[kind |-> kind, var |-> sv.pnum, value |-> value]>>
          \o Decomp(prem, Tail(paths), sv.vars)

DecompOf(prem) == Decomp(prem, GetPaths(prem), <<>>)

\* The non-empty prefixes of the decompositions of a rule's premises
PrefixesOf(P) ==
  UNION {{SubSeq(DecompOf(P[i]), 1, d) : d \in 1..Len(DecompOf(P[i]))} : i \in 1..Len(P)}

\* ------------------------------------------------------------------------
\* C6  Prefix sharing.  add_rule gives every premise of the new rule the
\* chain of its decomposition, with the rule in the rule set of the terminal
\* at its end; every prefix of the decomposition that some node already
\* stood for is that very node, and a decomposition that some terminal
\* already stood for is that very terminal; a node is made only for a prefix
\* no premise had before, and a terminal only for a decomposition no
\* premise had before (none at all when the premises were all there).
\* ------------------------------------------------------------------------
C6_PrefixSharing ==
  [][ (last'.op = "add_rule" /\ Len(rules') = Len(rules) + 1) =>
      LET rid == Len(rules')
          P == RuleBook[last'.arg].prems
      IN /\ \A i \in 1..Len(P) :
              LET t == rules'[rid].prems[i]
                  ch == Chain(nodes', prems'[t].parent)
                  D == DecompOf(P[i])
              IN /\ Keys(nodes', prems'[t].parent) = D
                 /\ nodes'[prems'[t].parent].terminal = t
                 /\ rid \in Range(prems'[t].rules)
                 /\ \A d \in 1..Len(D) : \A o \in 1..Len(nodes) :
                      Keys(nodes, o) = SubSeq(D, 1, d) => ch[d] = o
                 /\ \A q \in 1..Len(prems) :
                      Keys(nodes, prems[q].parent) = D =>
                        t = q /\ prems'[q].rules = Append(prems[q].rules, rid)
         /\ Len(nodes') - Len(nodes) =
              Cardinality(PrefixesOf(P) \ {Keys(nodes, o) : o \in 1..Len(nodes)})
         /\ Len(prems') - Len(prems) =
              Cardinality({DecompOf(P[i]) : i \in 1..Len(P)}
                          \ {Keys(nodes, prems[q].parent) : q \in 1..Len(prems)})
         /\ \A o \in 1..Len(nodes) :
              KeyOf(nodes', o) = KeyOf(nodes, o) /\ nodes'[o].parent = nodes[o].parent
    ]_vars

\* Two rules that share a terminal, and have two premises whose chains start
\* with the same node and part at the second
C6_Witness ==
  /\ Len(rules) = 2
  /\ \E p \in 1..Len(prems) : Len(prems[p].rules) = 2
  /\ \E p, q \in 1..Len(prems) :
       /\ p \in Range(rules[1].prems)
       /\ q \in Range(rules[2].prems)
       /\ Chain(nodes, prems[p].parent)[1] = Chain(nodes, prems[q].parent)[1]
       /\ Chain(nodes, prems[p].parent)[2] # Chain(nodes, prems[q].parent)[2]

\* In the record of a call, the consecuences handed to add_fact while entry j
\* was being added: the entries after j, as long as they are deeper
Desc(asserted, j) ==
  {k \in (j + 1)..Len(asserted) :
     \A i \in (j + 1)..k : asserted[i].depth > asserted[j].depth}

\* The entries during whose add_fact entry j was handed over
Anc(asserted, j) == {k \in 1..(j - 1) : j \in Desc(asserted, k)}

\* The place of entry j among the add_fact calls of the record, by return
Rank(asserted, j) ==
  Cardinality((1..(j - 1)) \ Anc(asserted, j)) + Cardinality(Desc(asserted, j)) + 1

\* ------------------------------------------------------------------------
\* C7  Dispatch, then persist.  When add_fact(f) has returned, the facts it
\* persisted are f and every consecuence handed to add_fact during the call,
\* each once, in the order in which their add_fact calls returned: every
\* fact derived while a fact was being dispatched comes before that fact,
\* and f comes last.
\* ------------------------------------------------------------------------
C7_DispatchThenPersist ==
  (last.op = "add_fact" /\ ~last.raised) =>
    /\ Len(facts) = last.before + Len(last.asserted) + 1
    /\ facts[Len(facts)] = last.arg
    /\ \A j \in 1..Len(last.asserted) :
         /\ facts[last.before + Rank(last.asserted, j)] = last.asserted[j].fact
         /\ \A k \in Desc(last.asserted, j) :
              Rank(last.asserted, k) < Rank(last.asserted, j)

\* A call that returned after a consecuence gave rise to another
C7_Witness ==
  /\ last.op = "add_fact"
  /\ ~last.raised
  /\ \E j \in 1..Len(last.asserted) : Desc(last.asserted, j) # {}
  /\ facts[Len(facts)] = last.arg

\* ------------------------------------------------------------------------
\* C8  No backfill.  add_rule persists no fact, leaves the matches of every
\* terminal as they were, gives a new terminal no match, delivers no binding
\* to a terminal, fires no rule and hands no consecuence to add_fact.
\* ------------------------------------------------------------------------
C8_NoBackfill ==
  [][ (last'.op = "add_rule" /\ Len(rules') = Len(rules) + 1) =>
      /\ facts' = facts
      /\ \A p \in 1..Len(prems) : prems'[p].matches = prems[p].matches
      /\ \A p \in (Len(prems) + 1)..Len(prems') : prems'[p].matches = <<>>
      /\ last'.delivered = <<>>
      /\ last'.fired = <<>>
      /\ last'.asserted = <<>>
    ]_vars

\* (john isa person) -> (john loves mary) installed after (john isa person)
\* was added: its terminal has no match and (john loves mary) is no fact
C8_Witness ==
  /\ last.op = "add_rule"
  /\ RuleBook[last.arg] = JohnRule
  /\ JohnIsaPerson \in Range(facts)
  /\ JohnLovesMary \notin Range(facts)
  /\ \A p \in Range(rules[Len(rules)].prems) : prems[p].matches = <<>>

\* ------------------------------------------------------------------------
\* C9  Condition failure isolation.  When a condition raised during an
\* add_fact call, the call still returned, the fact added is persisted, and
\* every rule of every terminal a binding was delivered to was fired.
\* ------------------------------------------------------------------------
C9_ConditionFailureIsolated ==
  ( /\ last.op = "add_fact"
    /\ \E e \in Range(last.evald) : rules[e[1]].conditions[e[2]] = "raise" ) =>
    /\ ~last.raised
    /\ Len(facts) > last.before
    /\ facts[Len(facts)] = last.arg
    /\ \A d \in Range(last.delivered) : \A r \in Range(prems[d.prem].rules) :
         \E f \in Range(last.fired) : f.rule = r

\* ------------------------------------------------------------------------
\* C10  Atomicity on failure.  A call that raises leaves the tree, the
\* terminals with their matches, the rules and the persisted facts as they
\* were before it.
\* ------------------------------------------------------------------------
C10_FailureLeavesNothing ==
  [][ last'.raised =>
      /\ nodes' = nodes
      /\ prems' = prems
      /\ rules' = rules
      /\ facts' = facts
    ]_vars

\* ------------------------------------------------------------------------
\* C11  initialize is idempotent.  A call of initialize on a network that has
\* its root keeps the root it has, makes no node, leaves exactly one root
\* node, and leaves the tree and the terminals with their matches as they
\* were.
\* ------------------------------------------------------------------------
C11_InitializeIdempotent ==
  [][ last'.op = "initialize" =>
      /\ root' = root
      /\ nodes' = nodes
      /\ Cardinality(Roots(nodes')) = 1
      /\ prems' = prems
    ]_vars

\* The premise a terminal stands for, read off the chain of its node
PremPattern(p) ==
  LET k == Keys(nodes, prems[p].parent) IN Pred(k[2].value, k[1].value, k[3].value)

\* A rule with one premise, a consecuence of which is a fact of that premise
\* under some assignment of the variables
Retriggers(r) ==
  /\ Len(rules[r].prems) = 1
  /\ \E a, b \in Assignments : \E i \in 1..Len(rules[r].consecuences) :
       Substitute(rules[r].consecuences[i], a) =
         Substitute(PremPattern(rules[r].prems[1]), b)

\* ------------------------------------------------------------------------
\* C12  No cycle detection.  An add_fact call that fires a rule whose
\* consecuence is again a fact of its premise does not end: the recursion
\* goes on beyond every depth, and the call persists nothing.
\* ------------------------------------------------------------------------
C12_CycleDoesNotEnd ==
  ( /\ last.op = "add_fact"
    /\ \E i \in 1..Len(last.fired) : Retriggers(last.fired[i].rule) ) =>
    /\ last.diverged
    /\ Len(facts) = last.before

\* ------------------------------------------------------------------------
\* C13  add_rule returns the rule it installed.  After add_rule(prems, conds,
\* cons) the value returned is the id of the rule just installed, the
\* conditions that rule evaluates when it fires are conds, and its
\* consecuences are cons, both in the order given.
\* ------------------------------------------------------------------------
C13_AddRuleReturnsRule ==
  last.op = "add_rule" =>
    /\ last.ret = Len(rules)
    /\ rules[Len(rules)].conditions = RuleBook[last.arg].conds
    /\ rules[Len(rules)].consecuences = RuleBook[last.arg].cons

\* ------------------------------------------------------------------------
\* C14  Child uniqueness.  No two nodes with the same parent have the same
\* var and the same value.
\* ------------------------------------------------------------------------
C14_ChildUniqueness ==
  \A i, j \in 1..Len(nodes) :
    (i # j /\ nodes[i].parent # 0 /\ nodes[i].parent = nodes[j].parent) =>
      <<nodes[i].var, nodes[i].value>> # <<nodes[j].var, nodes[j].value>>

\* Two rules installed, the second finding a premise of the first in the
\* tree, and a node with more than one child
C14_Witness ==
  /\ Len(rules) = 2
  /\ \E p \in 1..Len(prems) : prems[p].rules = <<1, 2>>
  /\ \E i, j \in 1..Len(nodes) :
       i # j /\ nodes[i].parent # Root /\ nodes[i].parent = nodes[j].parent

\* ------------------------------------------------------------------------
\* C15  Slot numbering.  A node has var > 0 exactly when its value is a
\* variable, and every binding delivered to a terminal has a value for every
\* variable slot of the terminal's premise.
\* ------------------------------------------------------------------------
C15_SlotNumbering ==
  /\ \A i \in 1..Len(nodes) :
       nodes[i].kind # "_root" => (IsVarName(nodes[i].value) <=> nodes[i].var > 0)
  /\ \A j \in 1..Len(last.delivered) :
       PremVars(rules, prems, last.delivered[j].prem) \subseteq
         DOMAIN last.delivered[j].match

\* ------------------------------------------------------------------------
\* C16  Merge.  a.merge(b) does not raise; it returns a Match exactly when
\* every variable that a and b both have has the same value in both, and
\* that Match has every entry of a and every entry of b; otherwise it
\* returns False.
\* ------------------------------------------------------------------------
C16_Merge ==
  last.op = "merge" =>
    LET a == last.arg[1]
        b == last.arg[2]
        agree == \A v \in DOMAIN a \cap DOMAIN b : a[v] = b[v]
    IN /\ last.ret.kind # "raise"
       /\ agree <=> last.ret.kind = "match"
       /\ ~agree <=> last.ret.kind = "false"
       /\ last.ret.kind = "match" =>
            last.ret.match = [v \in DOMAIN a \cup DOMAIN b |->
                                IF v \in DOMAIN a THEN a[v] ELSE b[v]]

\* The assignments of the variables under which a fact is the premise of a
\* terminal
Satisfying(p, fact) ==
  {a \in Assignments : Substitute(PremPattern(p), a) = fact}

\* A binding by slot that gives every variable node on the way to a terminal
\* the value the assignment gives its variable, and binds nothing else
IsAssignment(p, match, a) ==
  LET ch == Chain(nodes, prems[p].parent)
      vnodes == {ch[d] : d \in {e \in 1..Len(ch) : IsVarName(nodes[ch[e]].value)}}
  IN /\ DOMAIN match = {nodes[i].var : i \in vnodes}
     /\ \A i \in vnodes : match[nodes[i].var] = a[nodes[i].value]

\* ------------------------------------------------------------------------
\* C17  Dispatch correctness.  When add_fact(f) has returned, a binding was
\* delivered for f to the terminal of a premise exactly when f is the
\* premise under some assignment of its variables, and every binding
\* delivered for f to the terminal is such an assignment.
\* ------------------------------------------------------------------------
C17_DispatchCorrect ==
  (last.op = "add_fact" /\ ~last.raised) =>
    \A p \in 1..Len(prems) :
      LET ds == {j \in 1..Len(last.delivered) :
                   last.delivered[j].prem = p /\ last.delivered[j].fact = last.arg}
      IN /\ (Satisfying(p, last.arg) # {}) <=> (ds # {})
         /\ \A j \in ds : \E a \in Satisfying(p, last.arg) :
              IsAssignment(p, last.delivered[j].match, a)

\* Two bindings by name that give the variables they share the same values
Consistent(m, pmn) == \A v \in DOMAIN m \cap DOMAIN pmn : m[v] = pmn[v]

\* The merges of one candidate with the stored matches of a premise that are
\* consistent with it
MergesOf(rule, prem, pmatches, m) ==
  LET pms == SelectSeq(pmatches, LAMBDA pm : Consistent(m, ByName(rule, prem, pm)))
  IN [i \in 1..Len(pms) |-> MergePairs(rule, prem, m, pms[i])]

RECURSIVE MergesOfAll(_, _, _, _)
\* The merges of every candidate, one candidate after the other
MergesOfAll(rule, prem, pmatches, matches) ==
  IF matches = <<>> THEN <<>>
  ELSE MergesOf(rule, prem, pmatches, Head(matches))
       \o MergesOfAll(rule, prem, pmatches, Tail(matches))

RECURSIVE Combinations(_, _, _, _, _)
\* The candidates after every premise of the rule but self
Combinations(rule, ps, self, rprems, matches) ==
  IF rprems = <<>> THEN matches
  ELSE IF Head(rprems) = self
       THEN Combinations(rule, ps, self, Tail(rprems), matches)
       ELSE Combinations(rule, ps, self, Tail(rprems),
                         MergesOfAll(rule, Head(rprems), ps[Head(rprems)].matches,
                                     matches))

\* The bindings that can arrive at a terminal: a value for every slot that
\* dispatch binds
Arriving(p) == [PremVars(rules, prems, p) \ {0} -> Entities]

\* ------------------------------------------------------------------------
\* C18  All activations fired.  For every rule, every terminal of the rule
\* and every binding that can arrive at it, the bindings with which the rule
\* is fired are the combinations of the new binding with one stored match of
\* every other premise of the rule that agree on the variables they share:
\* as many, and the same ones.
\* ------------------------------------------------------------------------
C18_AllActivationsFired ==
  \A r \in 1..Len(rules) : \A p \in Range(rules[r].prems) :
    \A match \in Arriving(p) :
      LET fired == Join(rules[r], prems, p, match)
          all == Combinations(rules[r], prems, p, rules[r].prems,
                              <<ByName(rules[r], p, match)>>)
      IN Len(fired) = Len(all) /\ Range(fired) = Range(all)

\* ------------------------------------------------------------------------
\* C19  Unresolvable feature.  When add_fact is given a fact that has no
\* object, dispatch goes into no child of a node whose children test the
\* object: the call returns, the fact is persisted, and no terminal has
\* received a binding.
\* ------------------------------------------------------------------------
C19_UnresolvableFeature ==
  (last.op = "add_fact" /\ "obj" \notin DOMAIN last.arg) =>
    /\ ~last.raised
    /\ last.delivered = <<>>
    /\ Len(facts) = last.before + 1
    /\ facts[Len(facts)] = last.arg

\* The first premise of a rule that is not the terminal p: the first the
\* join combines with the new binding
FirstOther(rule, p) ==
  SelectSeq(rule.prems, LAMBDA q : q # p)[1]

\* ------------------------------------------------------------------------
\* C20  Join filter.  For every rule of several premises, every terminal p
\* of the rule and every binding that can arrive at it, every stored match
\* of the next premise that the join combines with the new binding has a
\* variable in common with it.
\* ------------------------------------------------------------------------
C20_JoinFilter ==
  \A r \in 1..Len(rules) : \A p \in Range(rules[r].prems) :
    (\E q \in Range(rules[r].prems) : q # p) =>
      \A match \in Arriving(p) :
        LET q == FirstOther(rules[r], p)
            m == ByName(rules[r], p, match)
            combined == FilterMatches(rules[r], q, prems[q].matches, m)
        IN \A i \in 1..Len(combined) :
             DOMAIN ByName(rules[r], q, combined[i]) \cap DOMAIN m # {}

\* ------------------------------------------------------------------------
\* C21  Distinct stored matches.  After any sequence of add_fact calls, no
\* terminal holds two stored matches with the same assignment: a fact that
\* yields an assignment already stored adds no second match.
\* ------------------------------------------------------------------------
C21_DistinctStoredMatches ==
  \A p \in 1..Len(prems) :
    \A i, j \in 1..Len(prems[p].matches) :
      prems[p].matches[i] = prems[p].matches[j] => i = j

\* What a node is: the fields no operation may change once the node exists
NodeIdentity(nd) ==
  [kind |-> nd.kind, value |-> nd.value, var |-> nd.var, parent |-> nd.parent]

\* ------------------------------------------------------------------------
\* C22  Tree frame.  A call of add_fact, with all the dispatching, joining,
\* firing and recursive add_fact it does, leaves every node, child_path,
\* terminal attachment, terminal rule set and rule as it was: it appends to
\* match sets and to the persisted facts, nothing else. A call of add_rule
\* appends nodes, terminals and rule registrations: every node that existed
\* keeps its kind, value, slot and parent, a child_path or terminal that was
\* set stays as set, every terminal keeps its node and its matches, and the
\* rules there were stay as they were.
\* ------------------------------------------------------------------------
C22_TreeFrame ==
  [][ /\ last'.op = "add_fact" =>
           /\ nodes' = nodes
           /\ rules' = rules
           /\ Len(prems') = Len(prems)
           /\ \A p \in 1..Len(prems) :
                /\ prems'[p].parent = prems[p].parent
                /\ prems'[p].rules = prems[p].rules
                /\ IsPrefix(prems[p].matches, prems'[p].matches)
           /\ IsPrefix(facts, facts')
      /\ last'.op = "add_rule" =>
           /\ Len(nodes') >= Len(nodes)
           /\ \A i \in 1..Len(nodes) :
                /\ NodeIdentity(nodes'[i]) = NodeIdentity(nodes[i])
                /\ nodes[i].child_path # <<>> => nodes'[i].child_path = nodes[i].child_path
                /\ nodes[i].terminal # 0 => nodes'[i].terminal = nodes[i].terminal
           /\ Len(prems') >= Len(prems)
           /\ \A p \in 1..Len(prems) :
                /\ prems'[p].parent = prems[p].parent
                /\ prems'[p].matches = prems[p].matches
                /\ IsPrefix(prems[p].rules, prems'[p].rules)
           /\ IsPrefix(rules, rules')
           /\ facts' = facts
    ]_vars

\* An add_fact that delivered a binding, fired a rule and added a derived
\* fact, in a tree where two rules share a terminal
C22_Witness ==
  /\ last.op = "add_fact"
  /\ last.delivered # <<>>
  /\ last.asserted # <<>>
  /\ Len(facts) > last.before
  /\ \E p \in 1..Len(prems) : Len(prems[p].rules) >= 2

\* Two children of one parent with the same class, slot and value
DuplicateChildren(ns) ==
  \E i, j \in 1..Len(ns) :
    /\ i # j
    /\ ns[i].parent = ns[j].parent
    /\ ns[i].kind = ns[j].kind
    /\ ns[i].var = ns[j].var
    /\ ns[i].value = ns[j].value

\* ------------------------------------------------------------------------
\* C23  Writers need serialization.  With add_rule called from several
\* threads, the tree has two children of one parent with the same slot and
\* value only if two calls were in flight at the same time: as long as every
\* call ends before the next begins there is no such pair. (That interleaved
\* calls do reach such a tree is C23_Witness.)
\* ------------------------------------------------------------------------
C23_WritersNeedSerialization ==
  DuplicateChildren(nodes) => \E t \in Writers : writers[t].overlapped

\* Two calls on premises with a common prefix both missed the lookup and
\* both created the child
C23_Witness ==
  /\ DuplicateChildren(nodes)
  /\ \A t \in Writers : writers[t].overlapped

\* How many times the last call dispatched the fact f: once if it is the
\* fact of the call, and once for every time a rule added it
Dispatches(f) ==
  (IF last.arg = f THEN 1 ELSE 0)
    + Cardinality({i \in 1..Len(last.asserted) : last.asserted[i].fact = f})

\* How many bindings the last call delivered to the terminal p for the fact f
Deliveries(p, f) ==
  Cardinality({i \in 1..Len(last.delivered) :
                 last.delivered[i].prem = p /\ last.delivered[i].fact = f})

\* How many times the last call fired the rule r with the binding m for f
Firings(r, m, f) ==
  Cardinality({i \in 1..Len(last.fired) :
                 last.fired[i] = [rule |-> r, match |-> m, fact |-> f]})

\* The facts the last call dispatched
Dispatched == {last.arg} \cup {last.asserted[i].fact : i \in 1..Len(last.asserted)}

\* ------------------------------------------------------------------------
\* C24  No duplicate delivery.  The dispatch of one fact delivers at most
\* one binding to any terminal, and fires no rule twice with the same
\* binding: in an add_fact call, a terminal receives for a fact no more
\* bindings than the number of times the call dispatched that fact, and a
\* rule is fired with one binding for a fact no more often than that.
\* ------------------------------------------------------------------------
C24_NoDuplicateDelivery ==
  last.op = "add_fact" =>
    \A f \in Dispatched :
      /\ \A p \in 1..Len(prems) : Deliveries(p, f) <= Dispatches(f)
      /\ \A i \in 1..Len(last.fired) :
           last.fired[i].fact = f =>
             Firings(last.fired[i].rule, last.fired[i].match, f) <= Dispatches(f)

====
